---- MODULE Spec2Model ----
(***************************************************************************)
(* A model of the customer-record manager: CRMAgent (src/crm_logic.py),    *)
(* the CSV storage it reads and writes through pandas, and the operations  *)
(* add_customer, update_customer, delete_customer, search_records,         *)
(* load_data and save_data.                                                *)
(*                                                                         *)
(* Text is a sequence of one-character strings, so that splitting,         *)
(* lower-casing, substring search and the CSV reader's number inference    *)
(* are computed character by character.  Column names and returned         *)
(* messages are TLA+ strings.                                              *)
(***************************************************************************)
EXTENDS Integers, Sequences, FiniteSets, TLC

VARIABLES
    file,      \* the storage: the ';'-delimited file at file_path
    prevFile,  \* the storage as it was before the last operation
    op,        \* the last operation: "init", "add", "update", "delete", ...
    args,      \* its arguments: [id, fields, query]
    data,      \* the table the operation was given
    out,       \* the table it handed to save_data, or the table it returned
    saved,     \* whether the operation called save_data
    msg,       \* the string it returned
    log,       \* the calls made so far, where a specification records them
    history,       \* st.session_state["conversation_history"]: the turn pairs
    message,       \* the user message chat_with_martina was given
    conversation   \* the message list chat_with_martina assembled

vars == <<file, prevFile, op, args, data, out, saved, msg, log,
          history, message, conversation>>

\* the state of the chat page
chat == <<history, message, conversation>>

\* no conversation yet (app.py line 64)
ChatInit == history = <<>> /\ message = "" /\ conversation = <<>>

(***************************************************************************)
(* Bounds of the model.                                                    *)
(***************************************************************************)
MaxRows == 2      \* add_customer is not called on a table of MaxRows rows
MaxCalls == 4     \* the length of a recorded sequence of calls
MaxFileRows == 2  \* the data rows of a stored file or of a table given as input
MaxTurns == 3     \* the turn pairs of a conversation history

(***************************************************************************)
(* Characters and text.                                                    *)
(***************************************************************************)
Digits == <<"0", "1", "2", "3", "4", "5", "6", "7", "8", "9">>

DigitSet == {Digits[i] : i \in 1..10}

DigitVal(c) == (CHOOSE i \in 1..10 : Digits[i] = c) - 1

UpperChars == <<"A", "B", "C", "D", "E", "F", "G", "H", "I", "J", "K", "L", "M",
                "N", "O", "P", "Q", "R", "S", "T", "U", "V", "W", "X", "Y", "Z">>

LowerChars == <<"a", "b", "c", "d", "e", "f", "g", "h", "i", "j", "k", "l", "m",
                "n", "o", "p", "q", "r", "s", "t", "u", "v", "w", "x", "y", "z">>

\* str.lower() on one character
LowerChar(c) ==
    IF \E i \in 1..26 : UpperChars[i] = c
    THEN LowerChars[CHOOSE i \in 1..26 : UpperChars[i] = c]
    ELSE c

\* str.lower()
Lower(s) == [i \in 1..Len(s) |-> LowerChar(s[i])]

RECURSIVE IntToText(_)
\* str(n) of a non-negative int
IntToText(n) ==
    IF n < 10 THEN <<Digits[n + 1]>>
    ELSE IntToText(n \div 10) \o <<Digits[(n % 10) + 1]>>

RECURSIVE TextToInt(_)
\* the value of a text of decimal digits (leading zeros carry no value)
TextToInt(s) ==
    IF s = <<>> THEN 0
    ELSE 10 * TextToInt(SubSeq(s, 1, Len(s) - 1)) + DigitVal(s[Len(s)])

RECURSIVE StripLeft(_)
StripLeft(s) ==
    IF s # <<>> /\ s[1] = " " THEN StripLeft(Tail(s)) ELSE s

RECURSIVE StripRight(_)
StripRight(s) ==
    IF s # <<>> /\ s[Len(s)] = " " THEN StripRight(SubSeq(s, 1, Len(s) - 1)) ELSE s

\* the C parser's number conversions skip leading and trailing blanks
Strip(s) == StripRight(StripLeft(s))

AllDigits(s) == \A i \in 1..Len(s) : s[i] \in DigitSet

(***************************************************************************)
(* Cell values of a table.  v is an int for "int", a number of tenths for  *)
(* "float" (25 is 2.5: the model's floats carry one fractional digit), a   *)
(* text for "str"; "na" is the missing value (NaN, <NA>, None).            *)
(***************************************************************************)
NA == [t |-> "na", v |-> 0]

IntV(n) == [t |-> "int", v |-> n]

FloatV(tenths) == [t |-> "float", v |-> tenths]

StrV(s) == [t |-> "str", v |-> s]

IsNA(x) == x.t = "na"

\* repr of a float, as to_csv and astype(str) write it: 2.5, 50.0
FloatText(tenths) ==
    IntToText(tenths \div 10) \o <<".">> \o <<Digits[(tenths % 10) + 1]>>

\* Python truthiness of a field value: "not customer_details[field]"
Falsy(x) ==
    \/ x.t = "na"
    \/ x.t = "str" /\ x.v = <<>>
    \/ x.t = "int" /\ x.v = 0
    \/ x.t = "float" /\ x.v = 0

(***************************************************************************)
(* The declared schema.                                                    *)
(***************************************************************************)
required_columns ==
    <<"Customer ID", "First Name", "Last Name", "Email", "Phone", "Status", "Amount">>

required_fields ==
    <<"First Name", "Last Name", "Email", "Phone", "Status", "Amount">>

ColumnSet(df) == {df.columns[i] : i \in 1..Len(df.columns)}

Column(df, c) == [i \in 1..Len(df.rows) |-> df.rows[i][c]]

\* pd.DataFrame(columns=list(required_columns.keys()))
EmptyTable == [columns |-> required_columns, rows |-> <<>>]

NoTable == [columns |-> <<>>, rows |-> <<>>]

NoFile == [exists |-> FALSE, header |-> <<>>, rows |-> <<>>]

NoArgs == [id |-> 0, fields |-> <<>>, query |-> <<>>]

(***************************************************************************)
(* save_data: DataFrame.to_csv(file_path, index=False, sep=';').           *)
(***************************************************************************)
\* the text to_csv writes for one cell
CellText(x) ==
    CASE x.t = "na" -> <<>>
      [] x.t = "int" -> IntToText(x.v)
      [] x.t = "float" -> FloatText(x.v)
      [] OTHER -> x.v

to_csv(df) ==
    [exists |-> TRUE,
     header |-> df.columns,
     rows |-> [i \in 1..Len(df.rows) |->
                  [j \in 1..Len(df.columns) |-> CellText(df.rows[i][df.columns[j]])]]]

(***************************************************************************)
(* pd.read_csv(file_path, delimiter=';'): column names from the header     *)
(* row, and per column the type the C parser infers from all its cells.    *)
(***************************************************************************)
IsIntText(s) == LET t == Strip(s) IN t # <<>> /\ AllDigits(t)

\* digits with one '.', as in 2.5, 50.0, 5. and .5 (at most one digit follows
\* the point: the model's floats are tenths)
IsFloatText(s) ==
    LET t == Strip(s)
        p == IF \E i \in 1..Len(t) : t[i] = "."
             THEN CHOOSE i \in 1..Len(t) : t[i] = "."
             ELSE 0
    IN  /\ p > 0
        /\ Len(t) >= 2
        /\ Len(t) - p <= 1
        /\ AllDigits(SubSeq(t, 1, p - 1))
        /\ AllDigits(SubSeq(t, p + 1, Len(t)))

\* tenths of the number a numeric cell holds
NumTenths(s) ==
    LET t == Strip(s)
    IN  IF AllDigits(t) THEN 10 * TextToInt(t)
        ELSE LET p == CHOOSE i \in 1..Len(t) : t[i] = "."
             IN  10 * TextToInt(SubSeq(t, 1, p - 1)) + TextToInt(SubSeq(t, p + 1, Len(t)))

\* the dtype read_csv gives a column: "int", "float" or "object"
InferKind(cells) ==
    IF Len(cells) = 0 THEN "object"
    ELSE IF \A i \in 1..Len(cells) : IsIntText(cells[i]) THEN "int"
    ELSE IF \A i \in 1..Len(cells) :
               cells[i] = <<>> \/ IsIntText(cells[i]) \/ IsFloatText(cells[i])
         THEN "float"
    ELSE "object"

\* the value of one cell in a column of that dtype; the empty cell is NaN
ParseCell(kind, s) ==
    IF s = <<>> THEN NA
    ELSE CASE kind = "int" -> IntV(TextToInt(Strip(s)))
           [] kind = "float" -> FloatV(NumTenths(s))
           [] OTHER -> StrV(s)

\* an empty header cell is named after its position
HeaderName(h, j) == IF h = "" THEN "Unnamed: " \o ToString(j - 1) ELSE h

\* a line with no characters is skipped (skip_blank_lines): with a single
\* column that is every row whose cell is empty
DataLines(f) ==
    IF Len(f.header) = 1 THEN SelectSeq(f.rows, LAMBDA r : r[1] # <<>>) ELSE f.rows

read_csv(f) ==
    LET n == Len(f.header)
        lines == DataLines(f)
        cols == [j \in 1..n |-> HeaderName(f.header[j], j)]
        kind == [j \in 1..n |-> InferKind([i \in 1..Len(lines) |-> lines[i][j]])]
    IN  [columns |-> cols,
         rows |-> [i \in 1..Len(lines) |->
                      [c \in {cols[j] : j \in 1..n} |->
                          LET j == CHOOSE k \in 1..n : cols[k] = c
                          IN  ParseCell(kind[j], lines[i][j])]]]

(***************************************************************************)
(* Table helpers (DataFrame operations load_data uses).                    *)
(***************************************************************************)
\* data.drop(columns=S)
DropColumns(df, S) ==
    LET keep == SelectSeq(df.columns, LAMBDA c : c \notin S)
    IN  [columns |-> keep,
         rows |-> [i \in 1..Len(df.rows) |->
                      [c \in {keep[j] : j \in 1..Len(keep)} |-> df.rows[i][c]]]]

\* data[c] = vals: replaces the column in place, or appends it as the last one
SetColumn(df, c, vals) ==
    LET cols == IF c \in ColumnSet(df) THEN df.columns ELSE Append(df.columns, c)
    IN  [columns |-> cols,
         rows |-> [i \in 1..Len(df.rows) |->
                      [k \in {cols[j] : j \in 1..Len(cols)} |->
                          IF k = c THEN vals[i] ELSE df.rows[i][k]]]]

\* 'Unnamed:' in col, for the names read_csv gives header cells left empty
UnnamedColumns == {"Unnamed: " \o ToString(k) : k \in 0..9}

IsUnnamed(c) == c \in UnnamedColumns

\* the position of the first blank of s, 0 when it has none
FirstSpace(s) ==
    IF \E i \in 1..Len(s) : s[i] = " "
    THEN CHOOSE i \in 1..Len(s) : s[i] = " " /\ \A k \in 1..(i - 1) : s[k] # " "
    ELSE 0

\* data['Name'].str.split(' ', n=1).str[0]
FirstNameOf(x) ==
    IF x.t # "str" THEN NA
    ELSE LET p == FirstSpace(x.v)
         IN  StrV(IF p = 0 THEN x.v ELSE SubSeq(x.v, 1, p - 1))

\* data['Name'].str.split(' ', n=1).str[1].fillna('')
LastNameOf(x) ==
    IF x.t # "str" THEN StrV(<<>>)
    ELSE LET p == FirstSpace(x.v)
         IN  StrV(IF p = 0 THEN <<>> ELSE SubSeq(x.v, p + 1, Len(x.v)))

\* the .str accessor raises AttributeError on a column that is not of strings:
\* a Name column read_csv inferred as int or float (all cells numeric or empty)
StrAccessorFails(col) ==
    Len(col) > 0 /\ \A i \in 1..Len(col) : col[i].t # "str"

\* "Handle legacy data with Name field", given that Name is a column
SplitName(df) ==
    LET name == Column(df, "Name")
        d1 == SetColumn(df, "First Name", [i \in 1..Len(name) |-> FirstNameOf(name[i])])
    IN  SetColumn(d1, "Last Name", [i \in 1..Len(name) |-> LastNameOf(name[i])])

\* data[column].astype(dtype), or pd.Series(dtype=dtype) when it raises: the
\* empty series leaves the missing value in every row
CoerceFails(c, col) ==
    CASE c = "Customer ID" ->
            \E i \in 1..Len(col) :
                col[i].t = "str" \/ (col[i].t = "float" /\ col[i].v % 10 # 0)
      [] c = "Amount" -> \E i \in 1..Len(col) : col[i].t = "str"
      [] OTHER -> FALSE

CoerceValue(c, x) ==
    CASE c = "Customer ID" /\ x.t = "float" -> IntV(x.v \div 10)
      [] c = "Amount" /\ x.t = "int" -> FloatV(10 * x.v)
      [] OTHER -> x

Coerce(df, c) ==
    LET col == Column(df, c)
    IN  IF c \notin ColumnSet(df) \/ CoerceFails(c, col)
        THEN SetColumn(df, c, [i \in 1..Len(df.rows) |-> NA])
        ELSE SetColumn(df, c, [i \in 1..Len(col) |-> CoerceValue(c, col[i])])

RECURSIVE EnsureColumns(_, _)
\* "Ensure all expected columns are present with correct types", from the
\* k-th declared column on
EnsureColumns(df, k) ==
    IF k > Len(required_columns) THEN df
    ELSE EnsureColumns(Coerce(df, required_columns[k]), k + 1)

\* data.dropna(how="all").reset_index(drop=True)
DropEmptyRows(df) ==
    [columns |-> df.columns,
     rows |-> SelectSeq(df.rows, LAMBDA r : \E c \in DOMAIN r : ~IsNA(r[c]))]

\* the columns load_data removes from what it read
DroppedColumns(df) ==
    {c \in ColumnSet(df) : IsUnnamed(c)}

(***************************************************************************)
(* load_data.  Any exception inside is reported and the empty table of the *)
(* declared columns is returned.                                           *)
(***************************************************************************)
load_data(f) ==
    IF ~f.exists THEN DropEmptyRows(EnsureColumns(EmptyTable, 1))
    ELSE IF Len(f.header) = 0 THEN EmptyTable      \* EmptyDataError
    ELSE LET d0 == read_csv(f)
             d1 == DropColumns(d0, DroppedColumns(d0))
             legacy == "Name" \in ColumnSet(d1)
             split == legacy /\ ("First Name" \notin ColumnSet(d1)
                                   \/ "Last Name" \notin ColumnSet(d1))
         IN  IF split /\ StrAccessorFails(Column(d1, "Name")) THEN EmptyTable
             ELSE LET d2 == IF split THEN SplitName(d1) ELSE d1
                      d3 == IF legacy THEN DropColumns(d2, {"Name"}) ELSE d2
                  IN  DropEmptyRows(EnsureColumns(d3, 1))

(***************************************************************************)
(* Field mappings (customer_details, updates): a Python dict, kept as the  *)
(* sequence of its <<key, value>> pairs in insertion order.                *)
(***************************************************************************)
Keys(d) == {d[i][1] : i \in 1..Len(d)}

Get(d, k) == d[CHOOSE i \in 1..Len(d) : d[i][1] = k][2]

\* d[k] = x
Put(d, k, x) ==
    IF k \in Keys(d)
    THEN [i \in 1..Len(d) |-> IF d[i][1] = k THEN <<k, x>> ELSE d[i]]
    ELSE Append(d, <<k, x>>)

\* an operation's outcome: the returned string, and the table handed to
\* save_data when it was called
Outcome(m, s, t) == [msg |-> m, saved |-> s, out |-> t]

(***************************************************************************)
(* add_customer                                                            *)
(***************************************************************************)
\* "field not in customer_details or not customer_details[field]"
IsMissing(details, field) ==
    field \notin Keys(details) \/ Falsy(Get(details, field))

\* the positions in required_fields of the fields the validation loop rejects
MissingFields(details) ==
    {k \in 1..Len(required_fields) : IsMissing(details, required_fields[k])}

\* a validation loop that runs to its end and reports the last field it rejects
FirstMissing_Last(details) ==
    required_fields[CHOOSE k \in MissingFields(details) :
                        \A j \in MissingFields(details) : k >= j]

\* the first field the validation loop returns on
FirstMissing(details) ==
    required_fields[CHOOSE k \in MissingFields(details) :
                        \A j \in MissingFields(details) : k <= j]

RequiredMessage(field) == "Error: " \o field \o " is required"

\* data['Customer ID'].max(): the greatest id that is not <NA>
Ids(df) ==
    {df.rows[i]["Customer ID"].v : i \in {k \in 1..Len(df.rows) :
                                             df.rows[k]["Customer ID"].t = "int"}}

MaxOf(S) == CHOOSE m \in S : \A x \in S : x <= m

\* an id taken from the number of rows instead of the greatest id
NewId_Count(df) == [ok |-> TRUE, id |-> Len(df.rows) + 1]

\* "Auto-increment Customer ID"; ok is FALSE when every id is <NA>, where
\* int(<NA>) raises
NewId(df) ==
    IF df.rows # <<>> /\ "Customer ID" \in ColumnSet(df)
    THEN IF Ids(df) = {} THEN [ok |-> FALSE, id |-> 0]
         ELSE [ok |-> TRUE, id |-> MaxOf(Ids(df)) + 1]
    ELSE [ok |-> TRUE, id |-> 1]

\* the value a new record's field takes in the combined column: an int
\* joins a float64 column as a float
Joined(df, c, x) ==
    IF c = "Amount" /\ x.t = "int" /\ df.rows # <<>> THEN FloatV(10 * x.v) ELSE x

\* pd.concat([data, pd.DataFrame([details])], ignore_index=True)
Concat(df, details) ==
    LET fresh == SelectSeq([i \in 1..Len(details) |-> details[i][1]],
                           LAMBDA k : k \notin ColumnSet(df))
        cols == df.columns \o fresh
        colset == {cols[j] : j \in 1..Len(cols)}
        old == [i \in 1..Len(df.rows) |->
                   [c \in colset |-> IF c \in ColumnSet(df) THEN df.rows[i][c] ELSE NA]]
        new == [c \in colset |->
                   IF c \in Keys(details) THEN Joined(df, c, Get(details, c)) ELSE NA]
    IN  [columns |-> cols, rows |-> Append(old, new)]

AddedMessage(id) == "Customer added successfully with ID " \o ToString(id)

AddErrorMessage ==
    "Error adding customer: int() argument must be a string, a bytes-like object or a real number, not 'NAType'"

add_customer(df, details) ==
    IF MissingFields(details) # {}
    THEN Outcome(RequiredMessage(FirstMissing(details)), FALSE, NoTable)
    ELSE LET new == NewId(df)
         IN  IF ~new.ok THEN Outcome(AddErrorMessage, FALSE, NoTable)
             ELSE Outcome(AddedMessage(new.id), TRUE,
                          Concat(df, Put(details, "Customer ID", IntV(new.id))))

(***************************************************************************)
(* update_customer                                                         *)
(***************************************************************************)
\* customer_mask = data['Customer ID'] == customer_id, row by row: TRUE,
\* FALSE, or <NA> where the row's id is <NA>
MaskAt(df, i, id) ==
    LET x == df.rows[i]["Customer ID"]
    IN  IF IsNA(x) THEN "NA" ELSE IF x = IntV(id) THEN "T" ELSE "F"

\* any(customer_mask): the builtin walks the mask in row order and stops at
\* the first True; bool(<NA>) raises TypeError
AnyMask(df, id) ==
    LET hits == {i \in 1..Len(df.rows) : MaskAt(df, i, id) # "F"}
    IN  IF hits = {} THEN "F"
        ELSE MaskAt(df, CHOOSE i \in hits : \A k \in hits : i <= k, id)

RECURSIVE ApplyUpdates(_, _, _, _)
\* "for key, value in updates.items(): if key in data.columns:
\*      data.loc[customer_mask, key] = value", from the k-th pair on; the rows
\* the mask selects are those where it is True
ApplyUpdates(df, hit, updates, k) ==
    IF k > Len(updates) THEN df
    ELSE LET key == updates[k][1]
             next == IF key \in ColumnSet(df)
                     THEN SetColumn(df, key,
                              [i \in 1..Len(df.rows) |->
                                  IF i \in hit THEN updates[k][2] ELSE df.rows[i][key]])
                     ELSE df
         IN  ApplyUpdates(next, hit, updates, k + 1)

NotFoundMessage(id) == "No customer found with ID " \o ToString(id)

UpdatedMessage(id) == "Customer with ID " \o ToString(id) \o " updated successfully"

UpdateErrorMessage == "Error updating customer: boolean value of NA is ambiguous"

update_customer(df, id, updates) ==
    CASE AnyMask(df, id) = "NA" -> Outcome(UpdateErrorMessage, FALSE, NoTable)
      [] AnyMask(df, id) = "F" -> Outcome(NotFoundMessage(id), FALSE, NoTable)
      [] OTHER ->
            LET hit == {i \in 1..Len(df.rows) : MaskAt(df, i, id) = "T"}
            IN  Outcome(UpdatedMessage(id), TRUE, ApplyUpdates(df, hit, updates, 1))

(***************************************************************************)
(* delete_customer                                                         *)
(***************************************************************************)
DeletedMessage(id) == "Customer with ID " \o ToString(id) \o " deleted successfully"

\* data[data['Customer ID'] != customer_id]: a row is kept where the
\* comparison is True; where the id is <NA> it is <NA>, which selects nothing
Remaining(df, id) ==
    [columns |-> df.columns,
     rows |-> SelectSeq(df.rows,
                  LAMBDA r : r["Customer ID"].t = "int" /\ r["Customer ID"].v # id)]

delete_customer(df, id) ==
    IF id \notin Ids(df) THEN Outcome(NotFoundMessage(id), FALSE, NoTable)
    ELSE Outcome(DeletedMessage(id), TRUE, Remaining(df, id))

(***************************************************************************)
(* Inputs: the texts, field mappings and ids the operations are called     *)
(* with.  Amount is a float, as the add form's number input gives it.      *)
(***************************************************************************)
TAl == <<"A", "l">>
TBo == <<"B", "o">>
TMail == <<"a", "@", "b">>
TPhone == <<"0", "1">>
TPhone2 == <<"0", "7">>
TActive == <<"A", "c", "t", "i", "v", "e">>
TNote == <<"x">>

Details(first, last, email, phone, status, amount) ==
    << <<"First Name", first>>, <<"Last Name", last>>, <<"Email", email>>,
       <<"Phone", phone>>, <<"Status", status>>, <<"Amount", amount>> >>

ValidDetails ==
    Details(StrV(TAl), StrV(TBo), StrV(TMail), StrV(TPhone), StrV(TActive), FloatV(25))

\* the mapping without the key k
Without(d, k) == SelectSeq(d, LAMBDA pair : pair[1] # k)

\* the empty value of a field: '' for the text fields, None for Amount
EmptyOf(k) == IF k = "Amount" THEN NA ELSE StrV(<<>>)

AddInputs ==
    {ValidDetails, Put(ValidDetails, "Amount", FloatV(0))}
    \cup {Without(ValidDetails, required_fields[k]) : k \in 1..Len(required_fields)}
    \cup {Put(ValidDetails, required_fields[k], EmptyOf(required_fields[k])) :
            k \in 1..Len(required_fields)}
    \cup {Without(Put(ValidDetails, "Email", StrV(<<>>)), "Phone"),
          Put(Put(ValidDetails, "Last Name", StrV(<<>>)), "Amount", FloatV(0))}

UpdateInputs ==
    { << <<"Phone", StrV(TPhone2)>>, <<"Notes", StrV(TNote)>> >>,
      << <<"Last Name", StrV(<<>>)>> >>,
      << <<"Customer ID", IntV(1)>> >>,
      << <<"Customer ID", NA>> >> }

CallIds == 1..(MaxRows + 1)

(***************************************************************************)
(* The operations as the page calls them: the table is loaded from storage *)
(* (app.py line 72), the operation is applied to it, and what it handed to *)
(* save_data is the new storage.                                           *)
(***************************************************************************)
Init ==
    /\ file = NoFile
    /\ prevFile = NoFile
    /\ op = "init"
    /\ args = NoArgs
    /\ data = NoTable
    /\ out = NoTable
    /\ saved = FALSE
    /\ msg = ""
    /\ log = <<>>
    /\ ChatInit

\* the effect of an operation with outcome r on a table loaded from storage
Effect(name, a, df, r) ==
    /\ op' = name
    /\ args' = a
    /\ data' = df
    /\ out' = r.out
    /\ saved' = r.saved
    /\ msg' = r.msg
    /\ prevFile' = file
    /\ file' = IF r.saved THEN to_csv(r.out) ELSE file

\* add_customer(data, customer_details, file_path) on the loaded table
AddCustomer ==
    \E df \in {load_data(file)} :
        /\ Len(df.rows) < MaxRows
        /\ \E d \in AddInputs :
             \E r \in {add_customer(df, d)} :
                Effect("add", [NoArgs EXCEPT !.fields = d], df, r)
        /\ UNCHANGED <<log, chat>>

\* update_customer(data, customer_id, updates, file_path) on the loaded table
UpdateCustomer ==
    \E df \in {load_data(file)} :
        /\ \E id \in CallIds, u \in UpdateInputs :
             \E r \in {update_customer(df, id, u)} :
                Effect("update", [NoArgs EXCEPT !.id = id, !.fields = u], df, r)
        /\ UNCHANGED <<log, chat>>

\* delete_customer(data, customer_id, file_path) on the loaded table
DeleteCustomer ==
    \E df \in {load_data(file)} :
        /\ \E id \in CallIds :
             \E r \in {delete_customer(df, id)} :
                Effect("delete", [NoArgs EXCEPT !.id = id], df, r)
        /\ UNCHANGED <<log, chat>>

Next == AddCustomer \/ UpdateCustomer \/ DeleteCustomer

Spec == Init /\ [][Next]_vars

(***************************************************************************)
(* The same calls, recorded: sequences of add_customer and delete_customer *)
(* from an empty store, each call with its id (the id an add assigned, the *)
(* id a delete was given) and whether it saved.                            *)
(***************************************************************************)
\* the id add_customer put in the record it appended
AssignedId(r) ==
    IF r.saved THEN r.out.rows[Len(r.out.rows)]["Customer ID"].v ELSE 0

RecordedAdd ==
    \E df \in {load_data(file)} :
        /\ Len(log) < MaxCalls
        /\ Len(df.rows) < MaxRows
        /\ \E d \in {ValidDetails, Without(ValidDetails, "Email")} :
             \E r \in {add_customer(df, d)} :
                /\ Effect("add", [NoArgs EXCEPT !.fields = d], df, r)
                /\ log' = Append(log, [op |-> "add", id |-> AssignedId(r), ok |-> r.saved])
        /\ UNCHANGED chat

RecordedDelete ==
    \E df \in {load_data(file)} :
        /\ Len(log) < MaxCalls
        /\ \E id \in CallIds :
             \E r \in {delete_customer(df, id)} :
                /\ Effect("delete", [NoArgs EXCEPT !.id = id], df, r)
                /\ log' = Append(log, [op |-> "delete", id |-> id, ok |-> r.saved])
        /\ UNCHANGED chat

NextIds == RecordedAdd \/ RecordedDelete

SpecIds == Init /\ [][NextIds]_vars

(***************************************************************************)
(* search_records                                                          *)
(***************************************************************************)
TNan == <<"n", "a", "n">>
TNA == <<"<", "N", "A", ">">>

\* data.astype(str): the Int64 column Customer ID writes its missing value
\* as <NA>, the float64 and object columns write theirs as nan
StrForm(c, x) ==
    CASE x.t = "na" -> IF c = "Customer ID" THEN TNA ELSE TNan
      [] x.t = "int" -> IntToText(x.v)
      [] x.t = "float" -> FloatText(x.v)
      [] OTHER -> x.v

\* one pattern character against one character of the text: str.contains
\* takes the query as a regular expression, in which '.' stands for any
\* character; the other characters of the model's queries stand for
\* themselves
CharMatches(pc, c) == pc = "." \/ pc = c

\* re.search(pattern, s) finds a match
Contains(s, pattern) ==
    \E p \in 0..(Len(s) - Len(pattern)) :
        \A i \in 1..Len(pattern) : CharMatches(pattern[i], s[p + i])

search_records(df, query) ==
    LET q == Lower(query)
    IN  [columns |-> df.columns,
         rows |-> SelectSeq(df.rows,
                      LAMBDA r : \E c \in ColumnSet(df) :
                                    Contains(Lower(StrForm(c, r[c])), q))]

(***************************************************************************)
(* Stored files given as input: a header and up to MaxFileRows data rows,  *)
(* each cell drawn from the texts listed for its column.                   *)
(***************************************************************************)
TJaneDoe == <<"J", "a", "n", "e", " ", "D", "o", "e">>
TPrince == <<"P", "r", "i", "n", "c", "e">>
TInactive == <<"I", "n", "a", "c", "t", "i", "v", "e">>
TDotMail == <<"c", ".", "d">>

Cells(h) ==
    CASE h = "Name" -> {TJaneDoe, TPrince, TPhone2, <<>>}
      [] h = "" -> {<<"0">>}
      [] h = "Customer ID" -> {<<"1">>, <<>>}
      [] h = "First Name" -> {TAl}
      [] h = "Last Name" -> {TBo}
      [] h = "Email" -> {TMail, TDotMail}
      [] h = "Phone" -> {TPhone}
      [] h = "Status" -> {TActive}
      [] h = "Amount" -> {<<"2", ".", "5">>}
      [] OTHER -> {TNote, <<>>}

RECURSIVE RowsOf(_)
\* the rows a header admits
RowsOf(h) ==
    IF h = <<>> THEN {<<>>}
    ELSE {<<c>> \o r : c \in Cells(Head(h)), r \in RowsOf(Tail(h))}

RECURSIVE SeqsUpTo(_, _)
\* the sequences of at most n elements of S
SeqsUpTo(S, n) ==
    IF n = 0 THEN {<<>>}
    ELSE SeqsUpTo(S, n - 1) \cup {Append(q, x) : q \in SeqsUpTo(S, n - 1), x \in S}

Headers ==
    { required_columns,
      <<"Name", "Email">>,
      <<"", "Customer ID", "Name">>,
      <<"Customer ID", "First Name", "Notes">>,
      <<"Name", "First Name", "Email">> }

LoadFiles ==
    {NoFile, [exists |-> TRUE, header |-> <<>>, rows |-> <<>>]}
    \cup UNION {{[exists |-> TRUE, header |-> h, rows |-> rs] :
                    rs \in SeqsUpTo(RowsOf(h), MaxFileRows)} : h \in Headers}

InitWith(f, df, a) ==
    /\ file = f
    /\ prevFile = f
    /\ op = "init"
    /\ args = a
    /\ data = df
    /\ out = NoTable
    /\ saved = FALSE
    /\ msg = ""
    /\ log = <<>>
    /\ ChatInit

InitLoad == \E f \in LoadFiles : InitWith(f, NoTable, NoArgs)

\* data = CRMAgent.load_data(file_path)
LoadData ==
    /\ op # "load"
    /\ op' = "load"
    /\ out' = load_data(file)
    /\ prevFile' = file
    /\ UNCHANGED <<file, args, data, saved, msg, log, chat>>

NextLoad == LoadData

SpecLoad == InitLoad /\ [][NextLoad]_vars

(***************************************************************************)
(* save_data followed by load_data on tables that conform to the declared  *)
(* schema: integer ids, text fields, a float Amount.                       *)
(***************************************************************************)
SchemaRecords ==
    {Details(StrV(TAl), StrV(last), StrV(TMail), StrV(phone), StrV(TActive), FloatV(amount)) :
        last \in {TBo, <<>>}, phone \in {TPhone, <<"5", "-", "5">>}, amount \in {25, 0}}

\* the table of the given records, numbered 1, 2, ... in order
TableOf(records) ==
    [columns |-> required_columns,
     rows |-> [i \in 1..Len(records) |->
                  [c \in ColumnSet(EmptyTable) |->
                      IF c = "Customer ID" THEN IntV(i) ELSE Get(records[i], c)]]]

SchemaTables == {TableOf(rs) : rs \in SeqsUpTo(SchemaRecords, MaxFileRows)}

InitRoundTrip == \E df \in SchemaTables : InitWith(NoFile, df, NoArgs)

\* CRMAgent.save_data(df, file_path)
SaveData ==
    /\ op = "init"
    /\ op' = "save"
    /\ prevFile' = file
    /\ file' = to_csv(data)
    /\ saved' = TRUE
    /\ UNCHANGED <<args, data, out, msg, log, chat>>

NextRoundTrip == SaveData \/ LoadData

SpecRoundTrip == InitRoundTrip /\ [][NextRoundTrip]_vars

(***************************************************************************)
(* search_records on a loaded table, for the queries listed.               *)
(***************************************************************************)
SearchRecords ==
    { Put(ValidDetails, "Customer ID", IntV(1)),
      Put(Details(StrV(TPrince), StrV(<<>>), StrV(TDotMail), StrV(TPhone2),
                  StrV(TInactive), FloatV(100)), "Customer ID", IntV(2)),
      Put(Details(StrV(TActive), StrV(TBo), StrV(<<>>), StrV(<<"5", "-", "5">>),
                  StrV(<<"P", "r", "o", "s", "p", "e", "c", "t">>), FloatV(5)),
          "Customer ID", NA) }

SearchTables ==
    {[columns |-> required_columns,
      rows |-> [i \in 1..Len(rs) |-> [c \in ColumnSet(EmptyTable) |-> Get(rs[i], c)]]] :
        rs \in SeqsUpTo(SearchRecords, MaxFileRows)}

Queries ==
    { <<>>, <<"a", "c", "t", "i", "v", "e">>, <<"A", "C", "T">>, <<"0", "1">>,
      <<"b", "o">>, <<"n", "a", "n">>, <<"c", ".", "d">>, <<"a", ".", "b">>,
      <<".", ".", "c", "e">>, <<"2", ".", "5">> }

InitSearch ==
    \E t \in SearchTables, q \in Queries :
        InitWith(to_csv(t), NoTable, [NoArgs EXCEPT !.query = q])

\* the search page: the table is loaded, and only "if search_query:" (a
\* non-empty term) calls CRMAgent.search_records(data, search_query); with
\* nothing typed the page shows no result
Search ==
    /\ op = "init"
    /\ \E df \in {load_data(file)} :
          /\ data' = df
          /\ IF args.query # <<>>
             THEN op' = "search" /\ out' = search_records(df, args.query)
             ELSE op' = "rendered" /\ out' = out
    /\ prevFile' = file
    /\ UNCHANGED <<file, args, saved, msg, log, chat>>

NextSearch == Search

SpecSearch == InitSearch /\ [][NextSearch]_vars

(***************************************************************************)
(* The chat page: AIAssistant.chat_with_martina assembles the message list *)
(* for the completion endpoint from the loaded table and the conversation  *)
(* history; the page then appends the turn to the history.  The context    *)
(* block is kept by its parts (count, column names, the rows of            *)
(* data.head()), not as laid-out text.                                     *)
(***************************************************************************)
SystemPrompt ==
    "You are Martina, a friendly and conversational CRM assistant. "
    \o "Your goal is to help users manage their CRM data effectively. "
    \o "You can assist with analyzing records and providing insights. "
    \o "When users ask you to make changes, inform them to use the menu on the left."

NoContext == [total |-> 0, columns |-> <<>>, sample |-> <<>>]

\* {"role": role, "content": content}
Message(role, content) == [role |-> role, content |-> content, context |-> NoContext]

\* the number of rows data.head() keeps
HeadRows == 5

\* data.head()
HeadOf(df) ==
    SubSeq(df.rows, 1, IF Len(df.rows) < HeadRows THEN Len(df.rows) ELSE HeadRows)

\* {"role": "system", "content": crm_context}
crm_context(df) ==
    [role |-> "system",
     content |-> "Current CRM Data Overview",
     context |-> [total |-> Len(df.rows), columns |-> df.columns, sample |-> HeadOf(df)]]

\* the list comprehension over enumerate(conversation_history): the entry at
\* an even index i gives its user message, the entry at an odd index its reply
HistoryMessages(h) ==
    [k \in 1..Len(h) |->
        IF (k - 1) % 2 = 0 THEN Message("user", h[k].user)
        ELSE Message("assistant", h[k].martina)]

\* list.insert(i, x)
InsertAt(l, i, x) == SubSeq(l, 1, i) \o <<x>> \o SubSeq(l, i + 1, Len(l))

\* the messages chat_with_martina passes to the completion endpoint
Conversation(m, df, h) ==
    InsertAt(<<Message("system", SystemPrompt)>> \o HistoryMessages(h)
                 \o <<Message("user", m)>>,
             1, crm_context(df))

UserMessages == {"How many customers?", "Who is active?"}

\* what the endpoint answers, or the error text chat_with_martina returns
Replies == {"You have customers.", "OpenAI API Error: Connection error."}

ChatTables == SearchTables \cup {TableOf([i \in 1..(HeadRows + 1) |-> ValidDetails])}

ChatFiles == {NoFile} \cup {to_csv(t) : t \in ChatTables}

InitChat == \E f \in ChatFiles : InitWith(f, NoTable, NoArgs)

\* the page loads the table and chat_with_martina assembles the messages,
\* up to the call of the endpoint
AssembleChat ==
    /\ op # "assemble"
    /\ Len(history) < MaxTurns
    /\ \E m \in UserMessages, df \in {load_data(file)} :
          /\ message' = m
          /\ data' = df
          /\ conversation' = Conversation(m, df, history)
    /\ op' = "assemble"
    /\ prevFile' = file
    /\ UNCHANGED <<file, args, out, saved, msg, log, history>>

\* the endpoint answers (or fails) and the page appends the turn
ReplyChat ==
    /\ op = "assemble"
    /\ \E r \in Replies :
          /\ msg' = r
          /\ history' = Append(history, [user |-> message, martina |-> r])
    /\ op' = "chat"
    /\ UNCHANGED <<file, prevFile, args, data, out, saved, log, message, conversation>>

NextChat == AssembleChat \/ ReplyChat

SpecChat == InitChat /\ [][NextChat]_vars

(***************************************************************************)
(* Properties.                                                             *)
(***************************************************************************)
\* a field the caller left out or left empty ('' or None)
AbsentOrEmpty(d, f) ==
    f \notin Keys(d) \/ Get(d, f) = StrV(<<>>) \/ Get(d, f) = NA

AbsentOrEmptyFields(d) ==
    {k \in 1..Len(required_fields) : AbsentOrEmpty(d, required_fields[k])}

FirstAbsentOrEmpty(d) ==
    required_fields[CHOOSE k \in AbsentOrEmptyFields(d) :
                        \A j \in AbsentOrEmptyFields(d) : k <= j]

\* C1 (as amended): add_customer with at least one of First Name, Last Name,
\* Email, Phone, Status, Amount absent or empty returns exactly
\* "Error: <Field> is required" for the first such field in that order, does
\* not call save_data, and leaves storage as it was.
C1_RequiredFieldError ==
    (op = "add" /\ AbsentOrEmptyFields(args.fields) # {})
    => /\ msg = "Error: " \o FirstAbsentOrEmpty(args.fields) \o " is required"
       /\ ~saved
       /\ file = prevFile

\* C1 witness: on a store that holds a record, an add with only Email missing
\* was refused.
C1_Witness ==
    /\ op = "add"
    /\ AbsentOrEmptyFields(args.fields) = {3}
    /\ data.rows # <<>>
    /\ msg = "Error: Email is required"

\* C1 (as stated): the returned message is exactly "<Field> is required".
C1_Original ==
    (op = "add" /\ AbsentOrEmptyFields(args.fields) # {})
    => /\ msg = FirstAbsentOrEmpty(args.fields) \o " is required"
       /\ ~saved
       /\ file = prevFile

\* the Customer IDs of a table that holds none missing
IdsOf(df) == {df.rows[i]["Customer ID"].v : i \in 1..Len(df.rows)}

\* the calls add, add, delete(2), add, each add successful
ReuseRun ==
    /\ Len(log) = 4
    /\ log[1].op = "add" /\ log[1].ok
    /\ log[2].op = "add" /\ log[2].ok
    /\ log[3].op = "delete" /\ log[3].id = 2
    /\ log[4].op = "add" /\ log[4].ok

\* C2: a successful add on the freshly loaded table assigns Customer ID 1
\* when the table is empty and (maximum existing Customer ID)+1 otherwise,
\* returns the success message with that id and persists the record; from an
\* empty store add, add, delete(2), add assigns 1, 2 and 2 again.
C2_IdAssignment ==
    /\ (op = "add" /\ saved)
       => LET id == IF data.rows = <<>> THEN 1
                    ELSE (CHOOSE m \in IdsOf(data) : \A x \in IdsOf(data) : x <= m) + 1
          IN  /\ out.rows[Len(out.rows)]["Customer ID"] = IntV(id)
              /\ msg = "Customer added successfully with ID " \o ToString(id)
              /\ file = to_csv(out)
    /\ ReuseRun => (log[1].id = 1 /\ log[2].id = 2 /\ log[4].id = 2)

\* C2 witness: add, add, delete(2), add has run, the delete removed id 2 and
\* the last add assigned 2 again.
C2_Witness ==
    ReuseRun /\ log[3].ok /\ log[4].id = 2 /\ op = "add" /\ Len(data.rows) = 1

\* C3: the stored table is unique by Customer ID: no two stored records have
\* the same Customer ID and none has a null Customer ID.
C3_UniqueIds ==
    LET t == load_data(file)
    IN  /\ \A i \in 1..Len(t.rows) : ~IsNA(t.rows[i]["Customer ID"])
        /\ \A i, j \in 1..Len(t.rows) :
              i # j => t.rows[i]["Customer ID"] # t.rows[j]["Customer ID"]

\* C4: update_customer changes only the fields named in updates, only on the
\* rows whose Customer ID equals id; keys that are no column are ignored and
\* add no column; the result is persisted; when no row has the id it returns
\* "No customer found with ID {id}" and storage is unchanged.
C4_UpdateFrame ==
    op = "update"
    => LET hit == {i \in 1..Len(data.rows) : data.rows[i]["Customer ID"] = IntV(args.id)}
       IN  IF hit = {}
           THEN /\ msg = "No customer found with ID " \o ToString(args.id)
                /\ file = prevFile
           ELSE /\ saved
                /\ out.columns = data.columns
                /\ Len(out.rows) = Len(data.rows)
                /\ \A i \in 1..Len(data.rows) : \A c \in ColumnSet(data) :
                      out.rows[i][c] = IF i \in hit /\ c \in Keys(args.fields)
                                       THEN Get(args.fields, c)
                                       ELSE data.rows[i][c]
                /\ file = to_csv(out)

\* C5: delete_customer with id present persists exactly the rows of the
\* input table whose Customer ID differs from id, in order and unchanged;
\* with id absent it returns "No customer found with ID {id}" and table and
\* storage are unchanged.
C5_DeleteExact ==
    op = "delete"
    => IF \E i \in 1..Len(data.rows) : data.rows[i]["Customer ID"] = IntV(args.id)
       THEN /\ saved
            /\ out.columns = data.columns
            /\ out.rows = SelectSeq(data.rows,
                                    LAMBDA r : r["Customer ID"] # IntV(args.id))
            /\ file = to_csv(out)
       ELSE /\ msg = "No customer found with ID " \o ToString(args.id)
            /\ ~saved
            /\ file = prevFile

\* a literal occurrence of q in s
IsSubstring(s, q) ==
    \E p \in 0..(Len(s) - Len(q)) : SubSeq(s, p + 1, p + Len(q)) = q

\* C6: search_records returns, in original order, exactly the rows in which
\* the lowercase string form of at least one column value contains the
\* lowercase query as a literal substring, whatever characters the query
\* holds; the empty query matches every row.
C6_LiteralSearch ==
    op = "search"
    => /\ out.columns = data.columns
       /\ out.rows = SelectSeq(data.rows,
                        LAMBDA r : \E c \in ColumnSet(data) :
                            IsSubstring(Lower(StrForm(c, r[c])), Lower(args.query)))

\* C7: for a table that conforms to the declared schema, save_data followed
\* by load_data yields the same records: as many rows, in the same order,
\* every field value equal to the one saved.
C7_RoundTrip ==
    (op = "load" /\ saved)
    => /\ Len(out.rows) = Len(data.rows)
       /\ \A i \in 1..Len(data.rows) : \A c \in ColumnSet(data) :
             out.rows[i][c] = data.rows[i][c]

\* C8: whatever the storage holds, the table load_data returns has exactly
\* the seven declared columns and no others, and no rows for a nonexistent
\* path.
C8_DeclaredColumns ==
    op = "load"
    => /\ ColumnSet(out) = ColumnSet(EmptyTable)
       /\ Len(out.columns) = Len(required_columns)
       /\ (~file.exists => out.rows = <<>>)

\* the stored file has a Name column and neither First Name nor Last Name
LegacyFile(f) ==
    LET hs == {f.header[j] : j \in 1..Len(f.header)}
    IN  f.exists /\ "Name" \in hs /\ "First Name" \notin hs /\ "Last Name" \notin hs

\* the stored Name of data row i
StoredName(f, i) == f.rows[i][CHOOSE j \in 1..Len(f.header) : f.header[j] = "Name"]

\* the value x is the text s (a missing value stands for the empty text)
IsText(x, s) == x = StrV(s) \/ (s = <<>> /\ IsNA(x))

\* C9: when the stored data has a Name column and no First Name / Last Name
\* columns, load_data gives every row First Name = the part of Name before
\* its first space and Last Name = the remainder after it ('' when there is
\* no space), and the returned table has no Name column.
C9_LegacySplit ==
    (op = "load" /\ LegacyFile(file))
    => /\ "Name" \notin ColumnSet(out)
       /\ Len(out.rows) = Len(file.rows)
       /\ \A i \in 1..Len(file.rows) :
             LET name == StoredName(file, i)
                 p == FirstSpace(name)
             IN  /\ IsText(out.rows[i]["First Name"],
                           IF p = 0 THEN name ELSE SubSeq(name, 1, p - 1))
                 /\ out.rows[i]["Last Name"] =
                       StrV(IF p = 0 THEN <<>> ELSE SubSeq(name, p + 1, Len(name)))

\* C10: add_customer with all six fields present, the text fields non-empty
\* and Amount 0 appends and persists a record with Amount 0 and returns the
\* success message with the assigned id.
C10_ZeroAmountAccepted ==
    (/\ op = "add"
     /\ \A k \in 1..Len(required_fields) : required_fields[k] \in Keys(args.fields)
     /\ \A k \in 1..5 : /\ Get(args.fields, required_fields[k]).t = "str"
                        /\ Get(args.fields, required_fields[k]).v # <<>>
     /\ Get(args.fields, "Amount") = FloatV(0))
    => /\ saved
       /\ Len(out.rows) = Len(data.rows) + 1
       /\ out.rows[Len(out.rows)]["Amount"] = FloatV(0)
       /\ msg = "Customer added successfully with ID "
                   \o ToString(out.rows[Len(out.rows)]["Customer ID"].v)
       /\ file = to_csv(out)

\* the 2n messages of n prior turns: each turn's user message, then its reply
TurnMessages(h) ==
    [k \in 1..(2 * Len(h)) |->
        IF k % 2 = 1 THEN Message("user", h[(k + 1) \div 2].user)
        ELSE Message("assistant", h[k \div 2].martina)]

\* C11: for a history of n prior turn pairs and a table snapshot, the list
\* chat_with_martina assembles is the role description, the context block
\* (record count, column names, sample rows), every prior turn's user message
\* followed by its reply in order (2n messages), then the new user message;
\* assembling it changes neither the snapshot, nor the history, nor storage.
C11_Assembly ==
    [][op' = "assemble"
       => /\ conversation' =
                <<Message("system", SystemPrompt),
                  [role |-> "system",
                   content |-> "Current CRM Data Overview",
                   context |-> [total |-> Len(data'.rows),
                                columns |-> data'.columns,
                                sample |-> SubSeq(data'.rows, 1,
                                              IF Len(data'.rows) < 5
                                              THEN Len(data'.rows) ELSE 5)]]>>
                \o TurnMessages(history)
                \o <<Message("user", message')>>
          /\ history' = history
          /\ file' = file
          /\ data' = load_data(file)]_vars

====
